---- MODULE Spec2Model ----
(***************************************************************************)
(* Model of the two scripts of links-italia:                               *)
(*   sitemap_extractor.py  get_sitemap_urls (recursive sitemap traversal)  *)
(*                         and the __main__ block (batch and index files)  *)
(*   update_sitemap.py     generate_sitemap_entries and write_sitemap      *)
(*                                                                         *)
(* Strings are sequences of one-character strings, so that strip,          *)
(* endswith, replace and sorted are computed character by character.       *)
(* The literal parts of a template are kept as one element each.          *)
(***************************************************************************)
EXTENDS Integers, Sequences, FiniteSets, TLC

VARIABLES
    web,                 \* what the server answered for each sitemap URL requested so far
    stack,               \* call stack of get_sitemap_urls, innermost frame last
    all_urls,            \* the set extracted_urls of __main__, passed as all_urls
    processed_sitemaps,  \* the set processed_sitemap_links, passed as processed_sitemaps
    fetches,             \* number of requests.get calls issued per sitemap URL
    log,                 \* diagnostics printed so far, as <<kind, subject>> pairs
    pc,                  \* position of the __main__ block of sitemap_extractor.py
    batch_size,          \* URLs per batch file
    sorted_urls,
    num_batches,
    i,                   \* iterations of the batch loop completed
    batch_files_details, \* the (display name, path) pairs appended so far
    files,               \* batch files of the lists directory, by file name
    readme,              \* the index file README.md
    rpc,                 \* position of the __main__ block of update_sitemap.py
    lists_dir,           \* what is at the path "lists" when update_sitemap.py runs
    generated_entries,   \* the list returned by generate_sitemap_entries
    sitemap_xml          \* the file sitemap.xml

crawlVars == <<web, stack, processed_sitemaps, fetches>>

mainVars == <<pc, batch_size, sorted_urls, num_batches, i, batch_files_details, files, readme>>

regenVars == <<rpc, lists_dir, generated_entries, sitemap_xml>>

vars == <<web, stack, all_urls, processed_sitemaps, fetches, log,
          pc, batch_size, sorted_urls, num_batches, i, batch_files_details, files, readme,
          rpc, lists_dir, generated_entries, sitemap_xml>>

----------------------------------------------------------------------------
(* Strings *)

Whitespace == {" ", "\n"}

XmlSuffix == <<".", "x", "m", "l">>

RECURSIVE LStrip(_)
LStrip(s) ==
    IF s # <<>> /\ Head(s) \in Whitespace THEN LStrip(Tail(s)) ELSE s

RECURSIVE RStrip(_)
RStrip(s) ==
    IF s # <<>> /\ s[Len(s)] \in Whitespace
    THEN RStrip(SubSeq(s, 1, Len(s) - 1))
    ELSE s

\* str.strip() with no argument
Strip(s) == RStrip(LStrip(s))

\* str.endswith(suffix)
EndsWith(s, suffix) ==
    /\ Len(s) >= Len(suffix)
    /\ SubSeq(s, Len(s) - Len(suffix) + 1, Len(s)) = suffix

----------------------------------------------------------------------------
(* The sitemap documents a server can return *)

\* Stands for "https://www.incontri-italia.it/sitemap.xml".
initial_sitemap_url == <<"r">> \o XmlSuffix

\* <loc> elements: ns tells whether the element is in the sitemaps.org
\* namespace, text is its text (<<>> for an element without text).
LocElems ==
    { [ns |-> TRUE,  text |-> <<" ", "a">> \o XmlSuffix \o <<"\n">>],
      [ns |-> TRUE,  text |-> <<"b">> \o XmlSuffix],
      [ns |-> TRUE,  text |-> initial_sitemap_url],
      [ns |-> TRUE,  text |-> <<"p", " ">>],
      [ns |-> FALSE, text |-> <<"q">>],
      [ns |-> TRUE,  text |-> <<>>] }

\* Bound on the number of <loc> elements of all documents served in one run.
MaxTotalLocs == 4

\* Mutation: only a location ending in the start sitemap's file name is a sitemap.
IsSubSitemapUrlOnlyStartName(url) == EndsWith(url, initial_sitemap_url)

\* line 39
IsSubSitemapUrl(url) == EndsWith(url, XmlSuffix)

SitemapURLs ==
    {initial_sitemap_url} \cup
    { Strip(e.text) : e \in { x \in LocElems : IsSubSitemapUrl(Strip(x.text)) } }

NotFetched == [kind |-> "none", doc |-> <<>>]

DocsOfLen(n) == [1..n -> LocElems]

\* root.findall('.//sitemap:loc', namespaces), then root.findall('.//loc')
FindAll(doc, ns) == SelectSeq(doc, LAMBDA e : e.ns = ns)

\* Mutation: no retry without the namespace.
LocElementsNoFallback(doc) == FindAll(doc, TRUE)

\* lines 32-34
LocElements(doc) ==
    IF FindAll(doc, TRUE) # <<>> THEN FindAll(doc, TRUE) ELSE FindAll(doc, FALSE)

RECURSIVE SumLens(_, _)
SumLens(w, S) ==
    IF S = {} THEN 0
    ELSE LET u == CHOOSE x \in S : TRUE
         IN Len(w[u].doc) + SumLens(w, S \ {u})

\* <loc> elements served so far
TotalLocs == SumLens(web, SitemapURLs)

----------------------------------------------------------------------------
(* get_sitemap_urls *)

Top == stack[Len(stack)]

Pop == SubSeq(stack, 1, Len(stack) - 1)

Frame(url) == [sitemap_url |-> url, at |-> "entry", loc_elements |-> <<>>]

AtEntry == stack # <<>> /\ Top.at = "entry"

AtLoop == stack # <<>> /\ Top.at = "loop"

\* Mutation: the guard looks the URL up in the leaf set.
AlreadyProcessedWrongSet(url) == url \in all_urls

\* line 11: the membership test that guards the whole body
AlreadyProcessed(url) == url \in processed_sitemaps

\* lines 11-13
Skip ==
    /\ AtEntry
    /\ AlreadyProcessed(Top.sitemap_url)
    /\ log' = log \cup {<<"skip", Top.sitemap_url>>}
    /\ stack' = Pop
    /\ UNCHANGED <<web, all_urls, processed_sitemaps, fetches>>
    /\ UNCHANGED <<mainVars, regenVars>>

\* Mutation: the URL is marked processed only when the fetch succeeds.
RequestMarkOnSuccess(url, response) ==
    /\ AtEntry
    /\ url = Top.sitemap_url
    /\ ~AlreadyProcessed(url)
    /\ processed_sitemaps' =
          IF response.kind = "error" THEN processed_sitemaps
          ELSE processed_sitemaps \cup {url}
    /\ fetches' = [fetches EXCEPT ![url] = @ + 1]
    /\ web' = [web EXCEPT ![url] = response]

\* lines 15-19: mark, then issue the GET
Request(url, response) ==
    /\ AtEntry
    /\ url = Top.sitemap_url
    /\ ~AlreadyProcessed(url)
    /\ processed_sitemaps' = processed_sitemaps \cup {url}
    /\ fetches' = [fetches EXCEPT ![url] = @ + 1]
    /\ web' = [web EXCEPT ![url] = response]

\* lines 21-23: requests.exceptions.RequestException
FetchError ==
    /\ AtEntry
    /\ Request(Top.sitemap_url, [kind |-> "error", doc |-> <<>>])
    /\ log' = log \cup {<<"fetch_error", Top.sitemap_url>>}
    /\ stack' = Pop
    /\ UNCHANGED all_urls
    /\ UNCHANGED <<mainVars, regenVars>>

\* lines 27-30
EmptyBody ==
    /\ AtEntry
    /\ Request(Top.sitemap_url, [kind |-> "empty", doc |-> <<>>])
    /\ log' = log \cup {<<"empty", Top.sitemap_url>>}
    /\ stack' = Pop
    /\ UNCHANGED all_urls
    /\ UNCHANGED <<mainVars, regenVars>>

\* Mutation: the parse error is raised to the caller, whose own handler ends it too.
ParseErrorPropagates ==
    /\ AtEntry
    /\ Request(Top.sitemap_url, [kind |-> "malformed", doc |-> <<>>])
    /\ log' = log \cup {<<"parse_error", Top.sitemap_url>>}
    /\ stack' = SubSeq(stack, 1, Len(stack) - 2)
    /\ UNCHANGED all_urls
    /\ UNCHANGED <<mainVars, regenVars>>

\* lines 31, 43-44: ET.ParseError
ParseError ==
    /\ AtEntry
    /\ Request(Top.sitemap_url, [kind |-> "malformed", doc |-> <<>>])
    /\ log' = log \cup {<<"parse_error", Top.sitemap_url>>}
    /\ stack' = Pop
    /\ UNCHANGED all_urls
    /\ UNCHANGED <<mainVars, regenVars>>

\* lines 31-34
Parsed ==
    /\ AtEntry
    /\ \E n \in 0..(MaxTotalLocs - TotalLocs) : \E doc \in DocsOfLen(n) :
          /\ Request(Top.sitemap_url, [kind |-> "xml", doc |-> doc])
          /\ stack' = [stack EXCEPT ![Len(stack)] =
                          [@ EXCEPT !.at = "loop", !.loc_elements = LocElements(doc)]]
    /\ UNCHANGED <<all_urls, log>>
    /\ UNCHANGED <<mainVars, regenVars>>

Rest == [stack EXCEPT ![Len(stack)] = [@ EXCEPT !.loc_elements = Tail(@)]]

\* line 37: an element without text is passed over
NoText ==
    /\ AtLoop
    /\ Top.loc_elements # <<>>
    /\ Head(Top.loc_elements).text = <<>>
    /\ stack' = Rest
    /\ UNCHANGED <<web, all_urls, processed_sitemaps, fetches, log>>
    /\ UNCHANGED <<mainVars, regenVars>>

\* lines 38-40
SubSitemap ==
    /\ AtLoop
    /\ Top.loc_elements # <<>>
    /\ Head(Top.loc_elements).text # <<>>
    /\ LET url == Strip(Head(Top.loc_elements).text)
       IN /\ IsSubSitemapUrl(url)
          /\ stack' = Rest \o <<Frame(url)>>
    /\ UNCHANGED <<web, all_urls, processed_sitemaps, fetches, log>>
    /\ UNCHANGED <<mainVars, regenVars>>

\* lines 38-39, 41-42
Leaf ==
    /\ AtLoop
    /\ Top.loc_elements # <<>>
    /\ Head(Top.loc_elements).text # <<>>
    /\ LET url == Strip(Head(Top.loc_elements).text)
       IN /\ ~IsSubSitemapUrl(url)
          /\ all_urls' = all_urls \cup {url}
    /\ stack' = Rest
    /\ UNCHANGED <<web, processed_sitemaps, fetches, log>>
    /\ UNCHANGED <<mainVars, regenVars>>

\* line 36: the loop is exhausted and the call returns
Return ==
    /\ AtLoop
    /\ Top.loc_elements = <<>>
    /\ stack' = Pop
    /\ UNCHANGED <<web, all_urls, processed_sitemaps, fetches, log>>
    /\ UNCHANGED <<mainVars, regenVars>>

----------------------------------------------------------------------------
(* The __main__ block of sitemap_extractor.py: batch files and index *)

\* Bound on the number of extracted URLs.
MaxUrls == 4

\* Bound on the configured batch size (line 54 sets 75).
MaxBatchSize == 3

\* Leaf URLs a traversal can leave in extracted_urls.
UrlUniverse ==
    { <<"p">>, <<"q">>, <<"p", "q">>, <<>>,
      <<"h", ":", "/", "/", "p">>,
      <<"h", ":", "/", "/", "/", "q">> }

\* ord(c) for the characters of UrlUniverse
CodePoint(c) ==
    CASE c = "/" -> 47 [] c = ":" -> 58 [] c = "h" -> 104 [] c = "p" -> 112 [] c = "q" -> 113

\* a < b for Python strings
RECURSIVE StrLess(_, _)
StrLess(a, b) ==
    IF a = <<>> THEN b # <<>>
    ELSE IF b = <<>> THEN FALSE
    ELSE IF Head(a) = Head(b) THEN StrLess(Tail(a), Tail(b))
    ELSE CodePoint(Head(a)) < CodePoint(Head(b))

\* sorted(list(extracted_urls)), line 73
RECURSIVE Sorted(_)
Sorted(S) ==
    IF S = {} THEN <<>>
    ELSE LET m == CHOOSE x \in S : \A y \in S \ {x} : StrLess(x, y)
         IN <<m>> \o Sorted(S \ {m})

\* Mutation: the number of batches is rounded down.
NumBatchesFloor(n, size) == n \div size

\* line 75
NumBatches(n, size) == (n + size - 1) \div size

\* sorted_urls[batch_start_index:batch_end_index], lines 80-82
BatchSlice(urls, index, size) ==
    LET batch_start_index == index * size
        batch_end_index == batch_start_index + size
    IN SubSeq(urls, batch_start_index + 1,
              IF batch_end_index < Len(urls) THEN batch_end_index ELSE Len(urls))

DigitChars == <<"0", "1", "2", "3", "4", "5", "6", "7", "8", "9">>

RECURSIVE Digits(_)
Digits(n) ==
    IF n < 10 THEN <<DigitChars[n + 1]>>
    ELSE Digits(n \div 10) \o <<DigitChars[(n % 10) + 1]>>

RECURSIVE ZeroFill(_, _)
ZeroFill(s, width) == IF Len(s) >= width THEN s ELSE ZeroFill(<<"0">> \o s, width)

\* f"{batch_file_number:03d}"
Format03d(n) == ZeroFill(Digits(n), 3)

\* The literal parts of a template are kept as one element each.
\* line 86
batch_filename(batch_file_number) ==
    <<"list-">> \o Format03d(batch_file_number) \o <<".md">>

\* s.replace(old, new) for a non-empty old: occurrences are taken from the
\* left and do not overlap
RECURSIVE Replace(_, _, _)
Replace(s, old, new) ==
    IF Len(s) < Len(old) THEN s
    ELSE IF SubSeq(s, 1, Len(old)) = old
         THEN new \o Replace(SubSeq(s, Len(old) + 1, Len(s)), old, new)
         ELSE <<Head(s)>> \o Replace(Tail(s), old, new)

\* line 90
relative_batch_path(batch_file_number) ==
    Replace(<<"lists", "/">> \o batch_filename(batch_file_number), <<"\\">>, <<"/">>)

\* line 91
batch_display_name(batch_file_number) == <<"Link Batch ">> \o Format03d(batch_file_number)

\* url.split('//')[-1], line 100
RECURSIVE LinkText(_)
LinkText(url) ==
    LET at == { j \in 1..(Len(url) - 1) : url[j] = "/" /\ url[j + 1] = "/" }
    IN IF at = {} THEN url
       ELSE LinkText(SubSeq(url, (CHOOSE j \in at : \A k \in at : j <= k) + 2, Len(url)))

Line(kind, text, url) == [kind |-> kind, text |-> text, url |-> url]

\* The writes of lines 95-101, in order
BatchFileLines(batch_file_number, current_batch_urls) ==
    << Line("title", Format03d(batch_file_number), <<>>),
       Line("intro", <<>>, <<>>),
       Line("backlink", <<"README.md">>, <<>>),
       Line("heading", <<>>, <<>>) >>
    \o [ j \in 1..Len(current_batch_urls) |->
           Line("link", LinkText(current_batch_urls[j]), current_batch_urls[j]) ]

\* The writes of lines 109-132, in order; the time stamp is left out
ReadmeLines(details) ==
    << Line("title", <<>>, <<>>),
       Line("updated", <<>>, <<>>),
       Line("source", initial_sitemap_url, initial_sitemap_url),
       Line("welcome", <<>>, <<>>),
       Line("explore", <<>>, <<>>) >>
    \o (IF details # <<>>
        THEN [ j \in 1..Len(details) |->
                 Line("link", details[j].display_name, details[j].path) ]
        ELSE << Line("none", <<>>, <<>>) >>)
    \o << Line("about", <<>>, <<>>),
          Line("footer", <<>>, <<>>) >>

Absent == [exists |-> FALSE, lines |-> <<>>]

\* A file left by an earlier run
OldFile == [exists |-> TRUE, lines |-> << Line("old", <<>>, <<>>) >>]

\* open(path, 'w') succeeded and the first k of the writes reached the file
Written(lines, k) == [exists |-> TRUE, lines |-> SubSeq(lines, 1, k)]

BatchFilenames == { batch_filename(n) : n \in 1..MaxUrls }

\* Mutation: the test for an empty set never succeeds.
NoUrlsExtractedNever == FALSE

\* line 70
NoUrlsExtracted == all_urls = {}

\* update_sitemap.py is not running
RegenIdle ==
    /\ rpc = "idle"
    /\ lists_dir = [kind |-> "missing", mtimes |-> <<>>]
    /\ generated_entries = <<>>
    /\ sitemap_xml = Absent

\* get_sitemap_urls has not returned yet; the traversal never reads batch_size
MainIdle ==
    /\ pc = "traversal"
    /\ batch_size = 1
    /\ sorted_urls = <<>>
    /\ num_batches = 0
    /\ i = 0
    /\ batch_files_details = <<>>
    /\ files = [f \in BatchFilenames |-> Absent]
    /\ readme = Absent
    /\ RegenIdle

\* lines 70-71
Halt ==
    /\ pc = "extracted"
    /\ NoUrlsExtracted
    /\ pc' = "halted"
    /\ log' = log \cup {<<"no_urls", <<>>>>}
    /\ UNCHANGED <<crawlVars, regenVars, all_urls, batch_size, sorted_urls, num_batches, i,
                   batch_files_details, files, readme>>

\* lines 72-77
Prepare ==
    /\ pc = "extracted"
    /\ ~NoUrlsExtracted
    /\ sorted_urls' = Sorted(all_urls)
    /\ batch_files_details' = <<>>
    /\ num_batches' = NumBatches(Cardinality(all_urls), batch_size)
    /\ i' = 0
    /\ pc' = "batches"
    /\ UNCHANGED <<crawlVars, regenVars, all_urls, log, batch_size, files, readme>>

\* line 92
Details(batch_file_number) ==
    Append(batch_files_details,
           [display_name |-> batch_display_name(batch_file_number),
            path |-> relative_batch_path(batch_file_number)])

\* lines 79-102: one iteration of the batch loop, all writes succeed
WriteBatch ==
    /\ pc = "batches"
    /\ i < num_batches
    /\ LET current_batch_urls == BatchSlice(sorted_urls, i, batch_size)
           batch_file_number == i + 1
           content == BatchFileLines(batch_file_number, current_batch_urls)
       IN /\ batch_files_details' = Details(batch_file_number)
          /\ files' = [files EXCEPT ![batch_filename(batch_file_number)] =
                          Written(content, Len(content))]
          /\ log' = log \cup {<<"wrote", batch_filename(batch_file_number)>>}
    /\ i' = i + 1
    /\ UNCHANGED <<crawlVars, regenVars, all_urls, pc, batch_size, sorted_urls, num_batches, readme>>

\* Mutation: the write error is caught and the loop goes on.
WriteBatchFailsSwallowed ==
    /\ pc = "batches"
    /\ i < num_batches
    /\ LET current_batch_urls == BatchSlice(sorted_urls, i, batch_size)
           batch_file_number == i + 1
           content == BatchFileLines(batch_file_number, current_batch_urls)
       IN /\ batch_files_details' = Details(batch_file_number)
          /\ \E k \in 0..Len(content) :
                files' = [files EXCEPT ![batch_filename(batch_file_number)] =
                             Written(content, k)]
          /\ log' = log \cup {<<"write_error", batch_filename(batch_file_number)>>}
    /\ i' = i + 1
    /\ UNCHANGED <<crawlVars, regenVars, all_urls, pc, batch_size, sorted_urls, num_batches, readme>>

\* lines 94-101 raise OSError: at open (the file is as it was) or after the
\* first k writes reached the file. Nothing catches it; the process ends
\* with a traceback.
WriteBatchFails ==
    /\ pc = "batches"
    /\ i < num_batches
    /\ LET current_batch_urls == BatchSlice(sorted_urls, i, batch_size)
           batch_file_number == i + 1
           content == BatchFileLines(batch_file_number, current_batch_urls)
       IN /\ batch_files_details' = Details(batch_file_number)
          /\ \/ UNCHANGED files
             \/ \E k \in 0..Len(content) :
                   files' = [files EXCEPT ![batch_filename(batch_file_number)] =
                                Written(content, k)]
          /\ log' = log \cup {<<"traceback", batch_filename(batch_file_number)>>}
    /\ pc' = "crashed"
    /\ UNCHANGED <<crawlVars, regenVars, all_urls, batch_size, sorted_urls, num_batches, i, readme>>

\* lines 104-137
WriteIndex ==
    /\ pc = "batches"
    /\ i = num_batches
    /\ LET content == ReadmeLines(batch_files_details)
       IN readme' = Written(content, Len(content))
    /\ log' = log \cup {<<"created", <<"README.md">>>>}
    /\ pc' = "finished"
    /\ UNCHANGED <<crawlVars, regenVars, all_urls, batch_size, sorted_urls, num_batches, i,
                   batch_files_details, files>>

\* lines 108-132 raise OSError
WriteIndexFails ==
    /\ pc = "batches"
    /\ i = num_batches
    /\ LET content == ReadmeLines(batch_files_details)
       IN \/ UNCHANGED readme
          \/ \E k \in 0..Len(content) : readme' = Written(content, k)
    /\ log' = log \cup {<<"traceback", <<"README.md">>>>}
    /\ pc' = "crashed"
    /\ UNCHANGED <<crawlVars, regenVars, all_urls, batch_size, sorted_urls, num_batches, i,
                   batch_files_details, files>>

\* A document whose location strings are exactly the URLs of S
DocFor(S) ==
    [ j \in 1..Cardinality(S) |->
        [ns |-> TRUE, text |-> IF Sorted(S)[j] = <<>> THEN <<" ">> ELSE Sorted(S)[j]] ]

\* line 68: get_sitemap_urls has returned; the start sitemap listed the
\* extracted URLs. The output directory is empty or holds an earlier run's files.
InitMain ==
    /\ all_urls \in { S \in SUBSET UrlUniverse : Cardinality(S) <= MaxUrls }
    /\ web = [u \in SitemapURLs |->
                IF u = initial_sitemap_url THEN [kind |-> "xml", doc |-> DocFor(all_urls)]
                ELSE NotFetched]
    /\ stack = <<>>
    /\ processed_sitemaps = {initial_sitemap_url}
    /\ fetches = [u \in SitemapURLs |-> IF u = initial_sitemap_url THEN 1 ELSE 0]
    /\ log = {}
    /\ pc = "extracted"
    /\ batch_size \in 1..MaxBatchSize
    /\ sorted_urls = <<>>
    /\ num_batches = 0
    /\ i = 0
    /\ batch_files_details = <<>>
    /\ \E before \in {Absent, OldFile} :
          /\ files = [f \in BatchFilenames |-> before]
          /\ readme = before
    /\ RegenIdle

NextMain ==
    \/ Halt
    \/ Prepare
    \/ WriteBatch
    \/ WriteBatchFails
    \/ WriteIndex
    \/ WriteIndexFails

SpecMain == InitMain /\ [][NextMain]_vars

----------------------------------------------------------------------------
(* update_sitemap.py *)

\* Bound on the number of names in the lists directory.
MaxFiles == 3

\* line 5
base_url == <<"https://whik59140.github.io/links-italia">>

\* File names that can be found in the lists directory.
FileNames ==
    { <<"a", ".", "m", "d">>,
      <<".", "m", "d">>,
      <<"n", ".", "t", "x", "t">>,
      <<"a", ".", "M", "D">>,
      <<"c", "\\", "\\", "d", ".", "m", "d">>,
      <<"e", "\\", "f", ".", "m", "d">> }

\* Mutation: every name of the directory is taken.
IsListFileAny(filename) == TRUE

\* line 20
IsListFile(filename) == EndsWith(filename, <<".", "m", "d">>)

\* lines 22-28: the modification date, today's date when it cannot be read
LastMod(mtime) == IF mtime = "unreadable" THEN "today" ELSE mtime

\* line 31
loc_path(filename) ==
    Replace(base_url \o <<"/">> \o <<"lists">> \o <<"/">> \o filename, <<"\\", "\\">>, <<"/">>)

Entry(loc, lastmod, changefreq, priority) ==
    [loc |-> loc, lastmod |-> lastmod, changefreq |-> changefreq, priority |-> priority]

\* lines 10-15
RootEntry == Entry(base_url \o <<"/">>, "today", "weekly", "1.0")

\* lines 19-38 for the names of the directory in the order os.listdir gave them
RECURSIVE ListEntries(_, _)
ListEntries(listing, mtimes) ==
    IF listing = <<>> THEN <<>>
    ELSE LET filename == Head(listing)
         IN (IF IsListFile(filename)
             THEN << Entry(loc_path(filename), LastMod(mtimes[filename]), "monthly", "0.8") >>
             ELSE <<>>)
            \o ListEntries(Tail(listing), mtimes)

\* The orders in which os.listdir can return the names of S
Listings(S) ==
    { l \in [1..Cardinality(S) -> S] : \A a, b \in 1..Cardinality(S) : l[a] = l[b] => a = b }

\* not os.path.exists(lists_dir), or not os.path.isdir(lists_dir)
IsDirectory(d) == d.kind = "dir"

\* lines 4-42
GenerateEntries ==
    /\ rpc = "start"
    /\ \/ /\ IsDirectory(lists_dir)
          /\ \E listing \in Listings(DOMAIN lists_dir.mtimes) :
                generated_entries' = <<RootEntry>> \o ListEntries(listing, lists_dir.mtimes)
          /\ UNCHANGED log
       \/ /\ ~IsDirectory(lists_dir)
          /\ generated_entries' = <<RootEntry>>
          /\ log' = log \cup {<<"warning_not_found", <<"lists">>>>}
    /\ rpc' = "generated"
    /\ UNCHANGED <<crawlVars, all_urls, mainVars, lists_dir, sitemap_xml>>

Chunk(kind, entry) == [kind |-> kind, entry |-> entry]

NoEntry == Entry(<<>>, "", "", "")

\* lines 45-49: the text written, cut at the places where a write can stop
SitemapContent(entries) ==
    << Chunk("urlset_open", NoEntry) >>
    \o [ j \in 1..Len(entries) |-> Chunk("url", entries[j]) ]
    \o << Chunk("urlset_close", NoEntry) >>

\* The sitemap.xml an earlier run left
OldSitemap ==
    [exists |-> TRUE,
     lines |-> SitemapContent(<< Entry(base_url \o <<"/">>, "yesterday", "weekly", "1.0") >>)]

\* lines 50-62, 66-69
WriteSitemap ==
    /\ rpc = "generated"
    /\ generated_entries # <<>>
    /\ LET content == SitemapContent(generated_entries)
       IN sitemap_xml' = Written(content, Len(content))
    /\ log' = log \cup {<<"updated", <<"sitemap.xml">>>>}
    /\ rpc' = "done"
    /\ UNCHANGED <<crawlVars, all_urls, mainVars, lists_dir, generated_entries>>

\* lines 50-64: the file is written, then reading it back raises IOError
ReadBackFails ==
    /\ rpc = "generated"
    /\ generated_entries # <<>>
    /\ LET content == SitemapContent(generated_entries)
       IN sitemap_xml' = Written(content, Len(content))
    /\ log' = log \cup {<<"updated", <<"sitemap.xml">>>>, <<"write_error", <<"sitemap.xml">>>>}
    /\ rpc' = "done"
    /\ UNCHANGED <<crawlVars, all_urls, mainVars, lists_dir, generated_entries>>

\* Mutation: the error is not caught and ends the process.
WriteSitemapFailsRaised ==
    /\ rpc = "generated"
    /\ generated_entries # <<>>
    /\ LET content == SitemapContent(generated_entries)
       IN \/ UNCHANGED sitemap_xml
          \/ \E k \in 0..(Len(content) - 1) : sitemap_xml' = Written(content, k)
    /\ log' = log \cup {<<"traceback", <<"sitemap.xml">>>>}
    /\ rpc' = "crashed"
    /\ UNCHANGED <<crawlVars, all_urls, mainVars, lists_dir, generated_entries>>

\* lines 50-52, 63-64: IOError at open (the file is as it was) or after the
\* first k pieces of the text reached the file, which open had emptied
WriteSitemapFails ==
    /\ rpc = "generated"
    /\ generated_entries # <<>>
    /\ LET content == SitemapContent(generated_entries)
       IN \/ UNCHANGED sitemap_xml
          \/ \E k \in 0..(Len(content) - 1) : sitemap_xml' = Written(content, k)
    /\ log' = log \cup {<<"write_error", <<"sitemap.xml">>>>}
    /\ rpc' = "done"
    /\ UNCHANGED <<crawlVars, all_urls, mainVars, lists_dir, generated_entries>>

Directories ==
    { [kind |-> "missing", mtimes |-> <<>>], [kind |-> "file", mtimes |-> <<>>] }
    \cup { [kind |-> "dir", mtimes |-> m] :
             m \in UNION { [S -> {"today", "yesterday", "unreadable"}] :
                             S \in { T \in SUBSET FileNames : Cardinality(T) <= MaxFiles } } }

\* line 66: the script starts in a working directory in some state
InitRegen ==
    /\ web = [u \in SitemapURLs |-> NotFetched]
    /\ stack = <<>>
    /\ all_urls = {}
    /\ processed_sitemaps = {}
    /\ fetches = [u \in SitemapURLs |-> 0]
    /\ log = {}
    /\ pc = "idle"
    /\ batch_size = 1
    /\ sorted_urls = <<>>
    /\ num_batches = 0
    /\ i = 0
    /\ batch_files_details = <<>>
    /\ files = [f \in BatchFilenames |-> Absent]
    /\ readme = Absent
    /\ rpc = "start"
    /\ lists_dir \in Directories
    /\ generated_entries = <<>>
    /\ sitemap_xml \in {Absent, OldSitemap}

\* The else branch of lines 70-71 is never taken: the list always holds the root entry.
NextRegen ==
    \/ GenerateEntries
    \/ WriteSitemap
    \/ ReadBackFails
    \/ WriteSitemapFails

SpecRegen == InitRegen /\ [][NextRegen]_vars

----------------------------------------------------------------------------
(* The traversal alone *)

\* lines 63-67
Init ==
    /\ web = [u \in SitemapURLs |-> NotFetched]
    /\ stack = <<Frame(initial_sitemap_url)>>
    /\ all_urls = {}
    /\ processed_sitemaps = {}
    /\ fetches = [u \in SitemapURLs |-> 0]
    /\ log = {}
    /\ MainIdle

Next ==
    \/ Skip
    \/ FetchError
    \/ EmptyBody
    \/ ParseError
    \/ Parsed
    \/ NoText
    \/ SubSitemap
    \/ Leaf
    \/ Return

Spec == Init /\ [][Next]_vars

----------------------------------------------------------------------------
(* Fairness: the interpreter runs the single thread until the call returns *)

SpecFair == Spec /\ WF_vars(Next)

----------------------------------------------------------------------------
(* Properties of the traversal *)

\* get_sitemap_urls(initial_sitemap_url, ...) has returned to __main__
Done == stack = <<>>

Min(S) == CHOOSE x \in S : \A y \in S : x <= y

Max(S) == CHOOSE x \in S : \A y \in S : x >= y

\* s without its leading and trailing whitespace
Trimmed(s) ==
    LET keep == { j \in 1..Len(s) : s[j] \notin Whitespace }
    IN IF keep = {} THEN <<>> ELSE SubSeq(s, Min(keep), Max(keep))

\* s ends in suffix
EndsIn(s, suffix) == \E n \in 0..Len(s) : s = SubSeq(s, 1, n) \o suffix

HasXmlSuffix(s) == EndsIn(s, <<".", "x", "m", "l">>)

\* The location strings of a document: the texts of its namespaced <loc>
\* elements, or of its bare ones when it has no namespaced one.
Locations(doc) ==
    LET texts(ns) == { doc[k].text : k \in { j \in 1..Len(doc) : doc[j].ns = ns } }
    IN (IF texts(TRUE) # {} THEN texts(TRUE) ELSE texts(FALSE)) \ {<<>>}

SitemapRefs(doc) == { Trimmed(t) : t \in { x \in Locations(doc) : HasXmlSuffix(Trimmed(x)) } }

LeafLocations(doc) == { Trimmed(t) : t \in { x \in Locations(doc) : ~HasXmlSuffix(Trimmed(x)) } }

ParsedSitemaps == { u \in DOMAIN web : web[u].kind = "xml" }

RECURSIVE ReachableFrom(_)
ReachableFrom(S) ==
    LET more == S \cup UNION { SitemapRefs(web[u].doc) : u \in S \cap ParsedSitemaps }
    IN IF more = S THEN S ELSE ReachableFrom(more)

\* Sitemap URLs reachable from the start through '.xml' references of parsed sitemaps
ReachableSitemaps == ReachableFrom({initial_sitemap_url})

\* Number of <loc> elements of the served documents whose trimmed text is u
References(u) ==
    LET occ(v) == { j \in 1..Len(web[v].doc) : Trimmed(web[v].doc[j].text) = u }
        RECURSIVE Count(_)
        Count(S) == IF S = {} THEN 0
                    ELSE LET v == CHOOSE x \in S : TRUE
                         IN Cardinality(occ(v)) + Count(S \ {v})
    IN Count(DOMAIN web)

\* C1: every sitemap URL is fetched at most once, however often it is
\* referenced and whether or not its fetch succeeded; once the traversal has
\* returned, every sitemap URL reachable from the start has been fetched
\* exactly once.
C1_FetchedOnce ==
    /\ \A u \in DOMAIN fetches : fetches[u] <= 1
    /\ Done => \A u \in ReachableSitemaps : u \in DOMAIN fetches /\ fetches[u] = 1

\* A sitemap whose only fetch failed is referenced twice and was fetched once.
C1_Witness ==
    /\ Done
    /\ \E u \in DOMAIN web :
          /\ web[u].kind = "error"
          /\ References(u) >= 2
          /\ fetches[u] = 1

\* URLs of the calls that are still running below the innermost one
Ancestors == { stack[j].sitemap_url : j \in 1..(Len(stack) - 1) }

CycleSkipped ==
    (AtEntry /\ Top.sitemap_url \in Ancestors)
        => /\ stack' = Pop
           /\ fetches' = fetches
           /\ <<"skip", Top.sitemap_url>> \in log'

\* C2: the traversal terminates on every sitemap graph, cyclic ones included,
\* and a call for a location that is the current sitemap or one of its
\* ancestors fetches nothing: it reports the skip and returns.
C2_CycleTerminates == <>Done /\ [][CycleSkipped]_vars

\* The traversal has returned after skipping a reference back to an ancestor
\* that was made two levels below it.
C2_Witness ==
    /\ Done
    /\ <<"skip", initial_sitemap_url>> \in log
    /\ \E u \in ParsedSitemaps \ {initial_sitemap_url} :
          /\ initial_sitemap_url \in SitemapRefs(web[u].doc)
          /\ u \notin SitemapRefs(web[initial_sitemap_url].doc)

AllSucceeded == \A u \in DOMAIN web : web[u].kind \in {"none", "xml"}

ReachableLeaves == UNION { LeafLocations(web[u].doc) : u \in ReachableSitemaps \cap ParsedSitemaps }

\* C3: when every fetch succeeded and every document parsed, the leaf set left
\* by the traversal is exactly the set of trimmed non-'.xml' location strings
\* of the sitemaps reachable from the start.
C3_LeafSetExact == (Done /\ AllSucceeded) => all_urls = ReachableLeaves

\* Three sitemaps were parsed, and leaves came from a padded text and from a
\* document with bare elements only.
C3_Witness ==
    /\ Done
    /\ AllSucceeded
    /\ Cardinality(ParsedSitemaps) = 3
    /\ Cardinality(all_urls) = 2

\* C4: the leaf set never holds an entry ending in '.xml'; such a location is
\* only ever a sitemap to recurse into.
C4_NoXmlLeaf ==
    /\ \A u \in all_urls : ~HasXmlSuffix(u)
    /\ \A u \in ParsedSitemaps : SitemapRefs(web[u].doc) \cap all_urls = {}

\* A '.xml' location found three levels deep has been recursed into, with a
\* leaf already collected.
C4_Witness ==
    /\ Len(stack) = 4
    /\ all_urls # {}

\* C5: a failed node (transport failure, empty body, malformed XML) does not
\* stop the rest of the traversal: once it has returned, every location of
\* every parsed sitemap has been handled, the leaves are in the leaf set and
\* the sub-sitemaps have been fetched.
C5_FailureIsLocal ==
    Done => \A u \in ParsedSitemaps :
               /\ LeafLocations(web[u].doc) \subseteq all_urls
               /\ \A v \in SitemapRefs(web[u].doc) : v \in processed_sitemaps /\ fetches[v] = 1

Failed == { u \in DOMAIN web : web[u].kind \in {"error", "empty", "malformed"} }

\* In one document a leaf precedes a failed sub-sitemap, which precedes
\* another sub-sitemap and a leaf.
C5_Witness ==
    /\ Done
    /\ \E u \in ParsedSitemaps : \E h, j, k, l \in 1..Len(web[u].doc) :
          /\ h < j /\ j < k /\ j < l
          /\ Trimmed(web[u].doc[h].text) \in all_urls
          /\ Trimmed(web[u].doc[j].text) \in Failed
          /\ Trimmed(web[u].doc[k].text) \in DOMAIN web
          /\ fetches[Trimmed(web[u].doc[k].text)] = 1
          /\ Trimmed(web[u].doc[k].text) # initial_sitemap_url
          /\ Trimmed(web[u].doc[l].text) \in all_urls

----------------------------------------------------------------------------
(* Properties of the batch and index files *)

\* ceil(n / size)
CeilDiv(n, size) == CHOOSE c \in 0..n : (c - 1) * size < n /\ n <= c * size

ExpectedBatches == CeilDiv(Cardinality(all_urls), batch_size)

\* This run opened the file for writing
Touched(file) == file.exists /\ file # OldFile

\* The URLs of the link lines of a file, in order
LinkUrls(file) ==
    LET links == SelectSeq(file.lines, LAMBDA ln : ln.kind = "link")
    IN [ j \in 1..Len(links) |-> links[j].url ]

BatchUrls(k) == LinkUrls(files[batch_filename(k)])

\* Places (batch, line) at which URL u is written
Places(u) ==
    { pl \in (1..MaxUrls) \X (1..MaxUrls) :
        /\ Touched(files[batch_filename(pl[1])])
        /\ pl[2] <= Len(BatchUrls(pl[1]))
        /\ BatchUrls(pl[1])[pl[2]] = u }

\* The batch loop has run to its end
LoopOver == pc \in {"batches", "finished", "crashed"} /\ i = num_batches

\* C6: N >= 1 URLs and batch size B give exactly ceil(N/B) batches numbered
\* 1..ceil(N/B) in that order; every URL is in exactly one batch, the batches
\* hold nothing else, every batch but the last holds B URLs and the last one
\* between 1 and B.
C6_BatchesPartition ==
    (LoopOver /\ all_urls # {}) =>
        /\ { f \in BatchFilenames : Touched(files[f]) }
              = { batch_filename(k) : k \in 1..ExpectedBatches }
        /\ batch_files_details =
              [ k \in 1..ExpectedBatches |->
                  [display_name |-> batch_display_name(k), path |-> relative_batch_path(k)] ]
        /\ \A u \in all_urls : Cardinality(Places(u)) = 1
        /\ \A k \in 1..ExpectedBatches : \A j \in 1..Len(BatchUrls(k)) :
              BatchUrls(k)[j] \in all_urls
        /\ \A k \in 1..(ExpectedBatches - 1) : Len(BatchUrls(k)) = batch_size
        /\ Len(BatchUrls(ExpectedBatches)) \in 1..batch_size

\* A finished run with at least two batches, the last one not full.
C6_Witness ==
    /\ pc = "finished"
    /\ num_batches >= 2
    /\ Cardinality(all_urls) % batch_size # 0

Untouched(file) == file \in {Absent, OldFile}

\* C7: with no extracted URL the run stops at once: no batch file and no
\* index file is created or overwritten, and no batching step is taken.
C7_NoUrlsShortCircuit ==
    (pc # "traversal" /\ all_urls = {}) =>
        /\ pc \in {"extracted", "halted"}
        /\ \A f \in BatchFilenames : Untouched(files[f])
        /\ Untouched(readme)
        /\ sorted_urls = <<>> /\ batch_files_details = <<>> /\ i = 0

\* The run halted on an empty URL set and an earlier run's index is still there.
C7_Witness ==
    /\ pc = "halted"
    /\ all_urls = {}
    /\ readme = OldFile
    /\ <<"no_urls", <<>>>> \in log

ExpectedSize(k) ==
    IF k < ExpectedBatches THEN batch_size
    ELSE Cardinality(all_urls) - (ExpectedBatches - 1) * batch_size

\* Batch file k holds its four heading lines and all of its links
Complete(k) ==
    LET file == files[batch_filename(k)]
    IN /\ Touched(file)
       /\ Len(file.lines) = 4 + ExpectedSize(k)
       /\ Len(BatchUrls(k)) = ExpectedSize(k)

\* C10: the index is written only after every batch file, and the batch
\* files are written in ascending order: whenever this run has written to
\* the index, every batch file 1..ceil(N/B) is complete; the finished index
\* links exactly the batches 1..ceil(N/B) in ascending order; and when the
\* write of batch k fails the run has ended with batches 1..k-1 complete, no
\* batch above k written and the index not written.
C10_IndexAfterBatches ==
    /\ Touched(readme) => \A k \in 1..ExpectedBatches : Complete(k)
    /\ \A k \in 1..MaxUrls :
          Touched(files[batch_filename(k)]) => \A j \in 1..(k - 1) : Complete(j)
    /\ pc = "finished" =>
          /\ readme.lines[Len(readme.lines)].kind = "footer"
          /\ LinkUrls(readme) = [ k \in 1..ExpectedBatches |-> relative_batch_path(k) ]
    /\ (pc = "crashed" /\ i < num_batches) =>
          /\ \A j \in 1..i : Complete(j)
          /\ \A j \in (i + 2)..MaxUrls : Untouched(files[batch_filename(j)])
          /\ Untouched(readme)
    /\ (pc = "batches" /\ i < num_batches) => Untouched(readme)

\* The write of batch 2 of at least 3 failed part-way: batch 1 is complete,
\* batch 2 is cut short, and the earlier run's batch 3 and index are as they were.
C10_Witness ==
    /\ pc = "crashed"
    /\ i = 1
    /\ num_batches >= 3
    /\ Complete(1)
    /\ Touched(files[batch_filename(2)]) /\ ~Complete(2)
    /\ files[batch_filename(3)] = OldFile
    /\ readme = OldFile

----------------------------------------------------------------------------
(* Properties of update_sitemap.py *)

Generated == rpc \in {"generated", "done", "crashed"}

\* Names of the lists directory that end in '.md'; none when it is no directory
MarkdownNames ==
    IF lists_dir.kind = "dir"
    THEN { n \in DOMAIN lists_dir.mtimes : EndsIn(n, <<".", "m", "d">>) }
    ELSE {}

\* Positions after the root entry whose location is loc
EntriesAt(at) == { j \in 2..Len(generated_entries) : generated_entries[j].loc = at }

\* The entries are the root entry and one entry per '.md' name n, located at loc[n]
EntriesAre(loc) ==
    /\ Len(generated_entries) = 1 + Cardinality(MarkdownNames)
    /\ generated_entries[1].loc = base_url \o <<"/">>
    /\ generated_entries[1].changefreq = "weekly"
    /\ generated_entries[1].priority = "1.0"
    /\ \A n \in MarkdownNames :
          /\ Cardinality(EntriesAt(loc[n])) = 1
          /\ \A j \in EntriesAt(loc[n]) :
                /\ generated_entries[j].changefreq = "monthly"
                /\ generated_entries[j].priority = "0.8"
    /\ (<<"warning_not_found", <<"lists">>>> \in log) <=> (lists_dir.kind # "dir")

\* base URL + '/lists/' + file name
PlainLoc(n) == base_url \o <<"/", "lists", "/">> \o n

\* The same with every two consecutive backslashes of the name replaced by '/'
SlashedLoc(n) == base_url \o <<"/", "lists", "/">> \o Replace(n, <<"\\", "\\">>, <<"/">>)

Regenerating == rpc \in {"start", "generated", "done", "crashed"}

\* The file holds the whole document for the generated entries
HoldsNewDocument ==
    /\ sitemap_xml.exists
    /\ Len(sitemap_xml.lines) = Len(generated_entries) + 2
    /\ sitemap_xml.lines[1].kind = "urlset_open"
    /\ sitemap_xml.lines[Len(sitemap_xml.lines)].kind = "urlset_close"
    /\ \A j \in 1..Len(generated_entries) :
          sitemap_xml.lines[j + 1] = [kind |-> "url", entry |-> generated_entries[j]]

\* The file is as the earlier run left it, or is not there
HoldsPrevious == sitemap_xml \in {Absent, OldSitemap}

\* The file was emptied and holds at most a beginning of the new document
HoldsCutDocument ==
    /\ sitemap_xml.exists
    /\ Len(sitemap_xml.lines) < Len(generated_entries) + 2
    /\ \A j \in 1..Len(sitemap_xml.lines) :
          \/ j = 1 /\ sitemap_xml.lines[j].kind = "urlset_open"
          \/ j > 1 /\ sitemap_xml.lines[j] = [kind |-> "url", entry |-> generated_entries[j - 1]]

Reported(kind) == <<kind, <<"sitemap.xml">>>> \in log

\* C9 as stated: sitemap.xml always holds its complete previous content or
\* the complete new document, and a write failure is reported, not raised.
C9_AsStated ==
    Regenerating =>
        /\ HoldsPrevious \/ HoldsNewDocument
        /\ rpc # "crashed"

\* C9, amended: the write is not atomic. After a successful write the file
\* holds the complete new document; after a write failure it holds its
\* previous content or an empty or cut-off beginning of the new document;
\* the failure is reported as a diagnostic and is not raised.
C9_WriteNotAtomic ==
    /\ rpc # "crashed"
    /\ rpc \in {"start", "generated"} => HoldsPrevious
    /\ rpc = "done" =>
          /\ Reported("updated") \/ Reported("write_error")
          /\ Reported("updated") => HoldsNewDocument
          /\ ~Reported("updated") => HoldsPrevious \/ HoldsCutDocument

\* A failed write of a document of three entries left only its opening and
\* its first entry in the file.
C9_Witness ==
    /\ rpc = "done"
    /\ Reported("write_error")
    /\ ~Reported("updated")
    /\ Len(generated_entries) = 3
    /\ sitemap_xml.exists
    /\ Len(sitemap_xml.lines) = 2

====
